---------------------------- MODULE Spec2Model ----------------------------
(***************************************************************************)
(* netlink-ddns: the Reconciler of src/main.rs (bootstrap loop, initial    *)
(* sync against the DNS provider, streaming loop), the AddressQuery        *)
(* get_if_addr and the ChangeStream ipv4_addr_stream / filter_msg of       *)
(* src/netlink.rs, together with the two things they talk to: the kernel   *)
(* (interface addresses and the netlink notification socket) and the DNS   *)
(* provider's A record.                                                    *)
(***************************************************************************)
EXTENDS Integers, Sequences, FiniteSets, TLC

(* ------------------------------ bounds -------------------------------- *)

\* number of distinct IPv4 addresses the kernel may assign
NumAddr == 2
\* number of kernel-side events (address add/del, noise, socket close)
MaxEnv == 3
\* number of failed bootstrap attempts that are counted
MaxRetry == 2
\* number of attributes of a netlink address message given to filter_msg
MaxAttrs == 3
\* number of rrset_values of a record the provider returns
MaxValues == 2
\* number of notifications waiting on the socket when the task is studied
MaxNotices == 2
\* number of get_config calls of one process
MaxLoads == 3

Addr == 1..NumAddr
\* Option::None of an Option<Ipv4Addr>
None == 0
OptAddr == {None} \cup Addr

\* config.iface, and the label of some other interface of the host
IfName == "eth0"
OtherIf == "wlan0"

(* --------------------- netlink messages (netlink.rs) ------------------- *)

\* AddressAttribute::Address(IpAddr::V4(ip))
AttrAddress4(a) == [t |-> "Address", fam |-> "V4", ip |-> a, label |-> ""]
\* AddressAttribute::Address(IpAddr::V6(_))
AttrAddress6 == [t |-> "Address", fam |-> "V6", ip |-> None, label |-> ""]
\* AddressAttribute::Local(IpAddr::V4(ip))
AttrLocal(a) == [t |-> "Local", fam |-> "V4", ip |-> a, label |-> ""]
\* AddressAttribute::Label(l)
AttrLabel(l) == [t |-> "Label", fam |-> "", ip |-> None, label |-> l]

\* NetlinkPayload::InnerMessage(RouteNetlinkMessage::{NewAddress,DelAddress,..})
\* with header.family f and the attributes as
InnerMsg(k, f, as) ==
    [payload |-> "InnerMessage", kind |-> k, family |-> f, attributes |-> as]
\* any other NetlinkPayload (Done, Error, Noop, Overrun)
NonInnerMsg ==
    [payload |-> "Other", kind |-> "", family |-> "", attributes |-> <<>>]

\* the RTM_NEWADDR / RTM_DELADDR notification the kernel multicasts for an
\* IPv4 address a of the interface labelled l
KernelAddrMsg(k, l, a) ==
    InnerMsg(k, "Inet", <<AttrAddress4(a), AttrLocal(a), AttrLabel(l)>>)

\* IpAddrChange { ctype, iface, addr }
IpAddrChange(c, i, a) == [ctype |-> c, iface |-> i, addr |-> a]
\* Option::None of an Option<IpAddrChange>
NoChange == [ctype |-> "None", iface |-> "", addr |-> None]

RECURSIVE FirstLabel(_)
\* find_map over the attributes: the first Label, "" standing for no Label
FirstLabel(as) ==
    IF as = <<>> THEN [some |-> FALSE, label |-> ""]
    ELSE IF Head(as).t = "Label" THEN [some |-> TRUE, label |-> Head(as).label]
    ELSE FirstLabel(Tail(as))

RECURSIVE AnyLabel(_, _)
\* is some Label of the attributes l
AnyLabel(as, l) ==
    IF as = <<>> THEN FALSE
    ELSE (Head(as).t = "Label" /\ Head(as).label = l) \/ AnyLabel(Tail(as), l)

\* is_our_if looking through all the labels (any) instead of the first
is_our_if_AnyLabel(ifname, amsg) == AnyLabel(amsg.attributes, ifname)

is_our_if(ifname, amsg) ==
    LET l == FirstLabel(amsg.attributes)
    IN  l.some /\ l.label = ifname

RECURSIVE V4s(_)
\* filter_map over the attributes: the Address(V4) values, in order
V4s(as) ==
    IF as = <<>> THEN <<>>
    ELSE IF Head(as).t = "Address" /\ Head(as).fam = "V4"
         THEN <<Head(as).ip>> \o V4s(Tail(as))
         ELSE V4s(Tail(as))

RECURSIVE Addresses(_)
\* V4s without the IpAddr::V4 pattern: every Address value, in order
Addresses(as) ==
    IF as = <<>> THEN <<>>
    ELSE IF Head(as).t = "Address"
         THEN <<Head(as).ip>> \o Addresses(Tail(as))
         ELSE Addresses(Tail(as))

\* get_ip taking the first address where the code wants exactly one, of
\* either family
get_ip_FirstOfAny(amsg) ==
    LET v4s == Addresses(amsg.attributes)
    IN  IF Len(v4s) >= 1 THEN v4s[1] ELSE None

get_ip(amsg) ==
    LET v4s == V4s(amsg.attributes)
    IN  IF Len(v4s) = 1 THEN v4s[1] ELSE None

\* filter_msg with the kinds of the two arms exchanged
filter_msg_KindsSwapped(ifname, msg) ==
    IF msg.kind = "NewAddress" /\ is_our_if(ifname, msg)
    THEN IF get_ip(msg) # None
         THEN IpAddrChange("Del", ifname, get_ip(msg)) ELSE NoChange
    ELSE IF msg.kind = "DelAddress" /\ is_our_if(ifname, msg)
    THEN IF get_ip(msg) # None
         THEN IpAddrChange("Add", ifname, get_ip(msg)) ELSE NoChange
    ELSE NoChange

filter_msg(ifname, msg) ==
    IF msg.kind = "NewAddress" /\ is_our_if(ifname, msg)
    THEN IF get_ip(msg) # None
         THEN IpAddrChange("Add", ifname, get_ip(msg)) ELSE NoChange
    ELSE IF msg.kind = "DelAddress" /\ is_our_if(ifname, msg)
    THEN IF get_ip(msg) # None
         THEN IpAddrChange("Del", ifname, get_ip(msg)) ELSE NoChange
    ELSE NoChange

(* ---------------------- AddressQuery (netlink.rs) ---------------------- *)

\* Result<Option<Ipv4Addr>>
Ok(v) == [ok |-> TRUE, val |-> v, err |-> ""]
Err(e) == [ok |-> FALSE, val |-> None, err |-> e]
\* the value of `attempt` before the first query
NoAttempt == [ok |-> FALSE, val |-> None, err |-> "unset"]

RECURSIVE SetToSeq(_)
\* the elements of a set of addresses in ascending order
SetToSeq(S) ==
    IF S = {} THEN <<>>
    ELSE LET m == CHOOSE x \in S : \A y \in S : x <= y
         IN  <<m>> \o SetToSeq(S \ {m})

\* the kernel's answer to the address dump of config.iface: its IPv6
\* link-local address, and one Inet message per IPv4 address
KernelDump(addrs) ==
    <<InnerMsg("NewAddress", "Inet6", <<AttrAddress6>>)>>
    \o [i \in 1..Cardinality(addrs) |->
           KernelAddrMsg("NewAddress", IfName, SetToSeq(addrs)[i])]

RECURSIVE DumpAddrs(_)
\* netlink.rs 105-130: the attributes of the Inet messages, flattened,
\* of which the Address attributes are kept
DumpAddrs(dump) ==
    IF dump = <<>> THEN <<>>
    ELSE (IF Head(dump).family = "Inet"
          THEN SelectSeq(Head(dump).attributes, LAMBDA x : x.t = "Address")
          ELSE <<>>) \o DumpAddrs(Tail(dump))

\* get_if_addr with the ambiguity check of line 135 left out
get_if_addr_FirstOfMany(exists, dump, sysfail) ==
    IF sysfail THEN Err("netlink")
    ELSE IF ~exists THEN Err("notfound")
    ELSE LET addrs == DumpAddrs(dump)
         IN  IF addrs = <<>> THEN Ok(None)
             ELSE IF addrs[1].fam = "V4" THEN Ok(addrs[1].ip)
             ELSE Err("internal")

\* get_if_addr over the kernel's answers: does the link exist, what does
\* the address dump hold; sysfail is a failed netlink connection/request
get_if_addr(exists, dump, sysfail) ==
    IF sysfail THEN Err("netlink")
    ELSE IF ~exists THEN Err("notfound")
    ELSE LET addrs == DumpAddrs(dump)
         IN  IF addrs = <<>> THEN Ok(None)
             ELSE IF Len(addrs) > 1 THEN Err("multiple")
             ELSE IF addrs[1].fam = "V4" THEN Ok(addrs[1].ip)
             ELSE Err("internal")

(* ------------------- the Gandi client (gandi/mod.rs) ------------------- *)

\* Option<String> of a key
SomeKey(k) == [some |-> TRUE, key |-> k]
NoKey == [some |-> FALSE, key |-> ""]

\* Result<Auth>
AuthOk(mode, k) == [ok |-> TRUE, mode |-> mode, key |-> k, err |-> ""]
AuthErr(e) == [ok |-> FALSE, mode |-> "", key |-> "", err |-> e]

\* main.rs 48-58 (config.gandi_api_key, config.gandi_pat_key), and the same
\* over GANDI_APIKEY, GANDI_PATKEY in gandi/mod.rs 22-32
get_auth(api, pat) ==
    IF api.some THEN AuthOk("ApiKey", api.key)
    ELSE IF pat.some THEN AuthOk("PatKey", pat.key)
    ELSE AuthErr("No Gandi key set")

\* the text of an Ipv4Addr, as set_host_ipv4 writes it (ip.to_string())
Ipv4Text == <<"10.0.0.1", "10.0.0.2", "10.0.0.3", "10.0.0.4">>
\* str::parse::<Ipv4Addr>
parse(str) ==
    IF \E a \in DOMAIN Ipv4Text : Ipv4Text[a] = str
    THEN Ok(CHOOSE a \in DOMAIN Ipv4Text : Ipv4Text[a] = str)
    ELSE Err("AddrParseError")

\* response bodies: the JSON of a Record with its rrset_values, the JSON of
\* an Error, and a body that is neither
RecordBody(values) == [json |-> "Record", rrset_values |-> values]
ErrorBody == [json |-> "Error", rrset_values |-> <<>>]
BadBody == [json |-> "", rrset_values |-> <<>>]

\* Result<Option<T>> of get
GetSome(obj) == [ok |-> TRUE, some |-> TRUE, obj |-> obj, err |-> ""]
GetNone == [ok |-> TRUE, some |-> FALSE, obj |-> BadBody, err |-> ""]
GetErr(e) == [ok |-> FALSE, some |-> FALSE, obj |-> BadBody, err |-> e]

\* gandi/mod.rs 65-99 with T = Record; r is what the request meets: the
\* keys of the environment, whether the exchange with the server works,
\* and the status and body of the response
get(r) ==
    IF ~get_auth(r.api, r.pat).ok THEN GetErr("No Gandi key set")
    ELSE IF ~r.transport THEN GetErr("transport")
    ELSE IF r.status = 200
    THEN IF r.body.json = "Record" THEN GetSome(r.body) ELSE GetErr("json")
    ELSE IF r.status = 404 THEN GetNone
    ELSE IF r.body.json = "Error" THEN GetErr("Gandi lookup failed")
    ELSE GetErr("json")

\* get_host_ipv4 with the two length tests made one
get_host_ipv4_EmptyIsError(r) ==
    LET rec == get(r)
    IN  IF ~rec.ok THEN Err(rec.err)
        ELSE IF ~rec.some THEN Ok(None)
        ELSE LET nr == Len(rec.obj.rrset_values)
             IN  IF nr # 1 THEN Err("Returned number of IPs")
                 ELSE LET ip == parse(rec.obj.rrset_values[1])
                      IN  IF ip.ok THEN Ok(ip.val) ELSE Err(ip.err)

\* gandi/mod.rs 134-155
get_host_ipv4(r) ==
    LET rec == get(r)
    IN  IF ~rec.ok THEN Err(rec.err)
        ELSE IF ~rec.some THEN Ok(None)
        ELSE LET nr == Len(rec.obj.rrset_values)
             IN  IF nr > 1 THEN Err("Returned number of IPs")
                 ELSE IF nr = 0 THEN Ok(None)
                 ELSE LET ip == parse(rec.obj.rrset_values[1])
                      IN  IF ip.ok THEN Ok(ip.val) ELSE Err(ip.err)

(* ------------------------ the configuration (config.rs) ---------------- *)

\* config.rs 51
DEFAULT_CONFIG_FILE == "/etc/netlink-ddns/config.corn"
\* config.rs 170: a file named on the command line
ExampleFile == "examples/config.corn"
FileNames == {DEFAULT_CONFIG_FILE, ExampleFile}

\* Option::None of the Option<String> cli_file
NoFile == ""
CliFiles == {NoFile} \cup FileNames

\* config.rs 63-69: a Config, by its iface
Config(i) == [iface |-> i]
NoConfig == [iface |-> ""]

\* Result<&'static Config>
ConfOk(c) == [ok |-> TRUE, conf |-> c, err |-> ""]
ConfErr(e) == [ok |-> FALSE, conf |-> NoConfig, err |-> e]

\* the texts a configuration file may hold: the configuration of either
\* interface, or one that does not deserialize
CornOf(i) == "{ iface = \"" \o i \o "\" }"
BadCorn == "{ iface = }"
Texts == {CornOf(IfName), CornOf(OtherIf), BadCorn}

\* a path of the file system: absent, or a file with its text
NoSuchFile == [exists |-> FALSE, text |-> ""]
File(t) == [exists |-> TRUE, text |-> t]
Paths == {NoSuchFile} \cup {File(t) : t \in Texts}

\* config.rs 76-77
read_to_string(f) ==
    IF f.exists THEN [ok |-> TRUE, text |-> f.text, err |-> ""]
    ELSE [ok |-> FALSE, text |-> "",
          err |-> "Failed to load config from {confile}"]

\* config.rs 79: corn::from_str::<Config>
from_str(t) ==
    IF t = CornOf(IfName) THEN ConfOk(Config(IfName))
    ELSE IF t = CornOf(OtherIf) THEN ConfOk(Config(OtherIf))
    ELSE ConfErr("DeserializationError")

\* config.rs 74-80: the closure given to get_or_try_init
LoadConfig(cli_file, fs) ==
    LET confile == IF cli_file = NoFile THEN DEFAULT_CONFIG_FILE
                   ELSE cli_file
        conf_s  == read_to_string(fs[confile])
    IN  IF ~conf_s.ok THEN ConfErr(conf_s.err) ELSE from_str(conf_s.text)

\* the OnceCell<Config>: empty, or holding its value
Unset == [set |-> FALSE, conf |-> NoConfig]
SetTo(c) == [set |-> TRUE, conf |-> c]

(* ------------------------------- state --------------------------------- *)

VARIABLES
    ifexists,    \* kernel: the interface config.iface exists
    ifaddrs,     \* kernel: the IPv4 addresses bound to it
    envSteps,    \* number of kernel-side events so far (bounded by MaxEnv)
    record,      \* provider: the published A record of config.host
    pc,          \* main: position of the async block
    attempt,     \* main: result of the last get_if_addr
    local,       \* main: the bootstrap address
    upstream,    \* main: the cache of the published address
    inflight,    \* main: the provider call being awaited
    calls,       \* history: every provider call issued, in order
    consumed,    \* history: every event taken from msgs, with its handling
    outcome,     \* main: "running", or the Result main returned
    bound,       \* ipv4_addr_stream: the notification socket is bound
    nlopen,      \* the netlink connection still delivers messages
    nlmsgs,      \* notifications multicast by the kernel, not yet decoded
    taskAlive,   \* the decoding task (owner of tx) is running
    msgs,        \* the unbounded channel tx -> rx
    failed,      \* history: the provider call that returned Err
    fails,       \* history: bootstrap attempts that gave no address
    waits,       \* history: retry delays waited
    kevents,     \* history: address events of config.iface the kernel
                 \* multicast to the bound socket, in emission order
    counting,    \* the bootstrap attempts are being counted
    arg,         \* the input of the function under study
    ret,         \* its result
    CONFIG,      \* config.rs 49: the OnceCell<Config>
    files,       \* the configuration files of the host
    loads        \* history: every get_config call, with its result

vars == <<ifexists, ifaddrs, envSteps, record, pc, attempt, local, upstream,
          inflight, calls, consumed, outcome, bound, nlopen, nlmsgs,
          taskAlive, msgs, failed, fails, waits, kevents, counting, arg, ret,
          CONFIG, files, loads>>

kernelVars == <<ifexists, ifaddrs, envSteps>>
mainVars == <<pc, attempt, local, upstream, inflight, calls, consumed, outcome,
              failed, fails, waits>>
streamVars == <<bound, nlopen, nlmsgs, taskAlive>>
\* untouched by the program: what is observed, and the function studied on
\* its own
confVars == <<CONFIG, files, loads>>
funVars == <<counting, arg, ret, confVars>>

\* a provider call: get_a_record / create_a_record / update_a_record
Call(op, a) == [op |-> op, addr |-> a]
NoCall == [op |-> "none", addr |-> None]

Running == outcome = "running"

\* no function under study
NoArg == [fn |-> "none"]
NoRet == [fn |-> "none"]

\* the state when main starts
Start ==
    /\ ifexists \in BOOLEAN
    /\ ifaddrs \in SUBSET Addr
    /\ (~ifexists => ifaddrs = {})
    /\ envSteps = 0
    /\ record \in OptAddr
    /\ pc = "Bootstrap"
    /\ attempt = NoAttempt
    /\ local = None
    /\ upstream = None
    /\ inflight = NoCall
    /\ calls = <<>>
    /\ consumed = <<>>
    /\ outcome = "running"
    /\ bound = FALSE
    /\ nlopen = TRUE
    /\ nlmsgs = <<>>
    /\ taskAlive = FALSE
    /\ msgs = <<>>
    /\ failed = NoCall
    /\ fails = 0
    /\ waits = 0
    /\ kevents = <<>>

\* main.rs 61-62: main has read the configuration named by no -c option
Loaded ==
    /\ files = [f \in FileNames |-> File(CornOf(IfName))]
    /\ CONFIG = SetTo(Config(IfName))
    /\ loads = <<[file |-> NoFile, res |-> ConfOk(Config(IfName))]>>

Init ==
    /\ Start /\ Loaded
    /\ counting = FALSE
    /\ arg = NoArg
    /\ ret = NoRet

\* the same start, with the bootstrap attempts counted up to MaxRetry
InitCounting ==
    /\ Start /\ Loaded
    /\ counting = TRUE
    /\ arg = NoArg
    /\ ret = NoRet


(* ------------------------------ the kernel ----------------------------- *)

\* a notification reaches the socket only once ipv4_addr_stream has bound
\* it to RTMGRP_IPV4_IFADDR and while the connection is up
Multicast(m) ==
    nlmsgs' = IF bound /\ nlopen THEN Append(nlmsgs, m) ELSE nlmsgs

\* the kernel's own account of what it multicast about config.iface
Emitted(c, a) ==
    kevents' = IF bound /\ nlopen
               THEN Append(kevents, IpAddrChange(c, IfName, a))
               ELSE kevents

\* the interface appears (link created)
LinkAppears ==
    /\ Running /\ ~ifexists
    /\ ifexists' = TRUE
    /\ UNCHANGED <<ifaddrs, envSteps, record, nlmsgs, bound, nlopen,
                   taskAlive, msgs>>
    /\ UNCHANGED mainVars
    /\ UNCHANGED <<kevents, funVars>>

\* an IPv4 address is assigned to the interface
KernelAddAddr(a) ==
    /\ Running /\ ifexists /\ envSteps < MaxEnv
    /\ a \notin ifaddrs
    /\ ifaddrs' = ifaddrs \cup {a}
    /\ envSteps' = envSteps + 1
    /\ Multicast(KernelAddrMsg("NewAddress", IfName, a))
    /\ Emitted("Add", a)
    /\ UNCHANGED <<ifexists, record, bound, nlopen, taskAlive, msgs>>
    /\ UNCHANGED mainVars
    /\ UNCHANGED funVars

\* an IPv4 address is removed from the interface
KernelDelAddr(a) ==
    /\ Running /\ ifexists /\ envSteps < MaxEnv
    /\ a \in ifaddrs
    /\ ifaddrs' = ifaddrs \ {a}
    /\ envSteps' = envSteps + 1
    /\ Multicast(KernelAddrMsg("DelAddress", IfName, a))
    /\ Emitted("Del", a)
    /\ UNCHANGED <<ifexists, record, bound, nlopen, taskAlive, msgs>>
    /\ UNCHANGED mainVars
    /\ UNCHANGED funVars

\* an address the interface already has is re-announced (its lifetime or
\* flags were updated, as on a DHCP renewal): RTM_NEWADDR with no change
KernelRefreshAddr(a) ==
    /\ Running /\ ifexists /\ envSteps < MaxEnv
    /\ bound /\ nlopen
    /\ a \in ifaddrs
    /\ envSteps' = envSteps + 1
    /\ Multicast(KernelAddrMsg("NewAddress", IfName, a))
    /\ Emitted("Add", a)
    /\ UNCHANGED <<ifexists, ifaddrs, record, bound, nlopen, taskAlive, msgs>>
    /\ UNCHANGED mainVars
    /\ UNCHANGED funVars

\* an address change on another interface of the host: same multicast
\* group; its address (here the first one) is never looked at
KernelOtherIf(k) ==
    /\ Running /\ bound /\ nlopen /\ envSteps < MaxEnv
    /\ envSteps' = envSteps + 1
    /\ Multicast(KernelAddrMsg(k, OtherIf, 1))
    /\ UNCHANGED <<ifexists, ifaddrs, record, bound, nlopen, taskAlive, msgs>>
    /\ UNCHANGED mainVars
    /\ UNCHANGED <<kevents, funVars>>

\* a netlink message that is not an InnerMessage
KernelNonInner ==
    /\ Running /\ bound /\ nlopen /\ envSteps < MaxEnv
    /\ envSteps' = envSteps + 1
    /\ Multicast(NonInnerMsg)
    /\ UNCHANGED <<ifexists, ifaddrs, record, bound, nlopen, taskAlive, msgs>>
    /\ UNCHANGED mainVars
    /\ UNCHANGED <<kevents, funVars>>

\* the netlink connection ends: nlmsgs yields None once drained
NetlinkClose ==
    /\ Running /\ bound /\ nlopen /\ envSteps < MaxEnv
    /\ envSteps' = envSteps + 1
    /\ nlopen' = FALSE
    /\ UNCHANGED <<ifexists, ifaddrs, record, bound, nlmsgs, taskAlive, msgs>>
    /\ UNCHANGED mainVars
    /\ UNCHANGED <<kevents, funVars>>

(* ------------------------- main: Bootstrapping ------------------------- *)

\* `?` on a failed call, or the value the async block returns
Exit(res) ==
    /\ pc' = "Exited"
    /\ outcome' = res
    /\ inflight' = NoCall

\* main.rs 80-81: the attempt gave no address; where attempts are counted,
\* at most MaxRetry of them do
NoAddress ==
    IF counting
    THEN fails < MaxRetry /\ fails' = fails + 1
    ELSE fails' = fails

\* `?` on the Err of the awaited provider call
Propagate ==
    /\ Exit("error")
    /\ failed' = inflight

\* issue a provider call and suspend on it
Issue(c, at) ==
    /\ pc' = at
    /\ inflight' = c
    /\ calls' = Append(calls, c)

\* QueryAddr with a bootstrap loop that propagates an Err of get_if_addr
\* instead of sleeping on it
QueryAddr_AbortOnErr ==
    /\ Running /\ pc = "Bootstrap"
    /\ \E sysfail \in BOOLEAN :
         /\ attempt' = get_if_addr(ifexists, KernelDump(ifaddrs), sysfail)
         /\ IF attempt'.ok /\ attempt'.val # None
            THEN /\ local' = attempt'.val
                 /\ Issue(Call("get", None), "AwaitGet")
                 /\ UNCHANGED <<outcome, fails>>
            ELSE IF attempt'.ok
            THEN /\ NoAddress
                 /\ pc' = "Sleep"
                 /\ UNCHANGED <<local, inflight, calls, outcome>>
            ELSE /\ NoAddress
                 /\ Exit("error")
                 /\ UNCHANGED <<local, calls>>
    /\ UNCHANGED <<upstream, consumed, record, msgs, failed, waits>>
    /\ UNCHANGED kernelVars
    /\ UNCHANGED <<kevents, funVars>>
    /\ UNCHANGED streamVars

\* QueryAddr with the loop left on every Ok, Ok(None) included
QueryAddr_BreakOnNone ==
    /\ Running /\ pc = "Bootstrap"
    /\ \E sysfail \in BOOLEAN :
         /\ attempt' = get_if_addr(ifexists, KernelDump(ifaddrs), sysfail)
         /\ IF attempt'.ok
            THEN /\ local' = attempt'.val
                 /\ Issue(Call("get", None), "AwaitGet")
                 /\ UNCHANGED fails
            ELSE /\ NoAddress
                 /\ pc' = "Sleep"
                 /\ UNCHANGED <<local, inflight, calls>>
    /\ UNCHANGED <<upstream, consumed, outcome, record, msgs, failed, waits>>
    /\ UNCHANGED kernelVars
    /\ UNCHANGED <<kevents, funVars>>
    /\ UNCHANGED streamVars

\* QueryAddr with the next attempt made at once, without the Timer of line 83
QueryAddr_NoDelay ==
    /\ Running /\ pc = "Bootstrap"
    /\ \E sysfail \in BOOLEAN :
         /\ attempt' = get_if_addr(ifexists, KernelDump(ifaddrs), sysfail)
         /\ IF attempt'.ok /\ attempt'.val # None
            THEN /\ local' = attempt'.val
                 /\ Issue(Call("get", None), "AwaitGet")
                 /\ UNCHANGED fails
            ELSE /\ NoAddress
                 /\ UNCHANGED <<pc, local, inflight, calls>>
    /\ UNCHANGED <<upstream, consumed, outcome, record, msgs, failed, waits>>
    /\ UNCHANGED kernelVars
    /\ UNCHANGED <<kevents, funVars>>
    /\ UNCHANGED streamVars

\* main.rs 77-87: one get_if_addr attempt; Ok(Some(ip)) breaks out of the
\* loop and get_a_record is called, anything else goes to the timer
QueryAddr ==
    /\ Running /\ pc = "Bootstrap"
    /\ \E sysfail \in BOOLEAN :
         /\ attempt' = get_if_addr(ifexists, KernelDump(ifaddrs), sysfail)
         /\ IF attempt'.ok /\ attempt'.val # None
            THEN /\ local' = attempt'.val
                 /\ Issue(Call("get", None), "AwaitGet")
                 /\ UNCHANGED fails
            ELSE /\ NoAddress
                 /\ pc' = "Sleep"
                 /\ UNCHANGED <<local, inflight, calls>>
    /\ UNCHANGED <<upstream, consumed, outcome, record, msgs, failed, waits>>
    /\ UNCHANGED kernelVars
    /\ UNCHANGED <<kevents, funVars>>
    /\ UNCHANGED streamVars

\* main.rs 83: the 10 s timer fires, back to the top of the loop
TimerFired ==
    /\ Running /\ pc = "Sleep"
    /\ pc' = "Bootstrap"
    /\ waits' = IF counting THEN waits + 1 ELSE waits
    /\ UNCHANGED <<attempt, local, upstream, inflight, calls, consumed,
                   outcome, record, msgs, failed, fails>>
    /\ UNCHANGED kernelVars
    /\ UNCHANGED <<kevents, funVars>>
    /\ UNCHANGED streamVars

(* -------------------------- main: InitialSync -------------------------- *)

\* InitialSyncCall with the absent record updated instead of created
InitialSyncCall_UpdateAbsent(up, loc) ==
    IF up = None THEN Call("update", loc)
    ELSE IF loc # up THEN Call("update", loc)
    ELSE NoCall

\* InitialSyncCall with a differing record created instead of updated
InitialSyncCall_CreateDiffering(up, loc) ==
    IF up = None THEN Call("create", loc)
    ELSE IF loc # up THEN Call("create", loc)
    ELSE NoCall

\* InitialSyncCall without the comparison of line 93
InitialSyncCall_NoCompare(up, loc) ==
    IF up = None THEN Call("create", loc)
    ELSE Call("update", loc)

\* main.rs 89-99: the mutation InitialSync issues for a fetched record
InitialSyncCall(up, loc) ==
    IF up = None THEN Call("create", loc)
    ELSE IF loc # up THEN Call("update", loc)
    ELSE NoCall

\* GetReturns with a failed read sending the Reconciler back to the
\* bootstrap loop
GetReturns_RestartOnErr ==
    /\ Running /\ pc = "AwaitGet"
    /\ \E ok \in BOOLEAN :
         IF ok
         THEN /\ upstream' = record
              /\ LET c == InitialSyncCall(upstream', local)
                 IN  IF c.op = "create" THEN Issue(c, "AwaitCreate")
                     ELSE IF c.op = "update" THEN Issue(c, "AwaitInitUpdate")
                     ELSE /\ pc' = "OpenStream"
                          /\ inflight' = NoCall
                          /\ UNCHANGED calls
              /\ UNCHANGED <<outcome, failed>>
         ELSE /\ Len(calls) < MaxEnv
              /\ pc' = "Bootstrap"
              /\ inflight' = NoCall
              /\ UNCHANGED <<upstream, calls, outcome, failed>>
    /\ UNCHANGED <<attempt, local, consumed, record, msgs, fails, waits>>
    /\ UNCHANGED kernelVars
    /\ UNCHANGED <<kevents, funVars>>
    /\ UNCHANGED streamVars

\* main.rs 87-99: get_a_record returns; Err propagates, Ok is stored in
\* upstream and decides the next call
GetReturns ==
    /\ Running /\ pc = "AwaitGet"
    /\ \E ok \in BOOLEAN :
         IF ok
         THEN /\ upstream' = record
              /\ LET c == InitialSyncCall(upstream', local)
                 IN  IF c.op = "create" THEN Issue(c, "AwaitCreate")
                     ELSE IF c.op = "update" THEN Issue(c, "AwaitInitUpdate")
                     ELSE /\ pc' = "OpenStream"
                          /\ inflight' = NoCall
                          /\ UNCHANGED calls
              /\ UNCHANGED <<outcome, failed>>
         ELSE /\ Propagate
              /\ UNCHANGED <<upstream, calls>>
    /\ UNCHANGED <<attempt, local, consumed, record, msgs, fails, waits>>
    /\ UNCHANGED kernelVars
    /\ UNCHANGED <<kevents, funVars>>
    /\ UNCHANGED streamVars

\* main.rs 91: create_a_record returns
CreateReturns ==
    /\ Running /\ pc = "AwaitCreate"
    /\ \E ok \in BOOLEAN :
         IF ok
         THEN /\ record' = inflight.addr
              /\ pc' = "OpenStream"
              /\ inflight' = NoCall
              /\ UNCHANGED <<outcome, failed>>
         ELSE /\ Propagate
              /\ UNCHANGED record
    /\ UNCHANGED <<attempt, local, upstream, calls, consumed, msgs, fails,
                   waits>>
    /\ UNCHANGED kernelVars
    /\ UNCHANGED <<kevents, funVars>>
    /\ UNCHANGED streamVars

\* main.rs 95: update_a_record returns
InitUpdateReturns ==
    /\ Running /\ pc = "AwaitInitUpdate"
    /\ \E ok \in BOOLEAN :
         IF ok
         THEN /\ record' = inflight.addr
              /\ pc' = "OpenStream"
              /\ inflight' = NoCall
              /\ UNCHANGED <<outcome, failed>>
         ELSE /\ Propagate
              /\ UNCHANGED record
    /\ UNCHANGED <<attempt, local, upstream, calls, consumed, msgs, fails,
                   waits>>
    /\ UNCHANGED kernelVars
    /\ UNCHANGED <<kevents, funVars>>
    /\ UNCHANGED streamVars

\* main.rs 102, netlink.rs 169-206: open and bind the notification socket,
\* spawn the decoding task; a failed connection or bind propagates
OpenStream ==
    /\ Running /\ pc = "OpenStream"
    /\ \E ok \in BOOLEAN :
         IF ok
         THEN /\ bound' = TRUE
              /\ taskAlive' = TRUE
              /\ pc' = "Streaming"
              /\ UNCHANGED <<outcome, inflight>>
         ELSE /\ Exit("error")
              /\ UNCHANGED <<bound, taskAlive>>
    /\ UNCHANGED <<attempt, local, upstream, calls, consumed, record, msgs,
                   nlopen, nlmsgs, failed, fails, waits>>
    /\ UNCHANGED kernelVars
    /\ UNCHANGED <<kevents, funVars>>

(* --------------------------- main: Streaming --------------------------- *)

\* the guard with an empty cache taken as a match (is_none_or)
MatchesUpstream_NoneMatches(up, ip) == up = None \/ up = ip

\* the guard with the comparison inverted
MatchesUpstream_Inverted(up, ip) == up # None /\ up # ip

\* main.rs 108: upstream.is_some_and(|uip| uip == ip)
MatchesUpstream(up, ip) == up # None /\ up = ip

\* the entry `consumed` keeps for an event: the event, the cache when it
\* was taken, and whether handling it issued update_a_record
Handled(m, up, called) ==
    [ctype |-> m.ctype, addr |-> m.addr, up |-> up, call |-> called]

\* main.rs 103-118: msgs.next() yields an Add; skipped when it matches the
\* cache, otherwise update_a_record is called
RecvAdd ==
    /\ Running /\ pc = "Streaming"
    /\ msgs # <<>> /\ Head(msgs).ctype = "Add"
    /\ msgs' = Tail(msgs)
    /\ LET ip == Head(msgs).addr
       IN  IF MatchesUpstream(upstream, ip)
           THEN /\ consumed' = Append(consumed, Handled(Head(msgs), upstream, FALSE))
                /\ UNCHANGED <<pc, inflight, calls>>
           ELSE /\ consumed' = Append(consumed, Handled(Head(msgs), upstream, TRUE))
                /\ Issue(Call("update", ip), "AwaitUpdate")
    /\ UNCHANGED <<attempt, local, upstream, outcome, record, failed, fails,
                   waits>>
    /\ UNCHANGED kernelVars
    /\ UNCHANGED <<kevents, funVars>>
    /\ UNCHANGED streamVars

\* UpdateReturns without the assignment of line 117
UpdateReturns_CacheNotSet ==
    /\ Running /\ pc = "AwaitUpdate"
    /\ \E ok \in BOOLEAN :
         IF ok
         THEN /\ record' = inflight.addr
              /\ pc' = "Streaming"
              /\ inflight' = NoCall
              /\ UNCHANGED <<outcome, upstream, failed>>
         ELSE /\ Propagate
              /\ UNCHANGED <<record, upstream>>
    /\ UNCHANGED <<attempt, local, calls, consumed, msgs, fails, waits>>
    /\ UNCHANGED kernelVars
    /\ UNCHANGED <<kevents, funVars>>
    /\ UNCHANGED streamVars

\* UpdateReturns with the cache assigned before the result is looked at
UpdateReturns_CacheSetFirst ==
    /\ Running /\ pc = "AwaitUpdate"
    /\ upstream' = inflight.addr
    /\ \E ok \in BOOLEAN :
         IF ok
         THEN /\ record' = inflight.addr
              /\ pc' = "Streaming"
              /\ inflight' = NoCall
              /\ UNCHANGED <<outcome, failed>>
         ELSE /\ Propagate
              /\ UNCHANGED record
    /\ UNCHANGED <<attempt, local, calls, consumed, msgs, fails, waits>>
    /\ UNCHANGED kernelVars
    /\ UNCHANGED <<kevents, funVars>>
    /\ UNCHANGED streamVars

\* UpdateReturns with a failed update issued again instead of propagated
UpdateReturns_RetryOnErr ==
    /\ Running /\ pc = "AwaitUpdate"
    /\ \E ok \in BOOLEAN :
         IF ok
         THEN /\ record' = inflight.addr
              /\ upstream' = inflight.addr
              /\ pc' = "Streaming"
              /\ inflight' = NoCall
              /\ UNCHANGED <<outcome, failed, calls>>
         ELSE /\ failed' = inflight
              /\ Len(calls) < MaxEnv + 2
              /\ Issue(inflight, "AwaitUpdate")
              /\ UNCHANGED <<record, upstream, outcome>>
    /\ UNCHANGED <<attempt, local, consumed, msgs, fails, waits>>
    /\ UNCHANGED kernelVars
    /\ UNCHANGED <<kevents, funVars>>
    /\ UNCHANGED streamVars

\* main.rs 115-117: update_a_record returns; on Ok the cache takes the ip
UpdateReturns ==
    /\ Running /\ pc = "AwaitUpdate"
    /\ \E ok \in BOOLEAN :
         IF ok
         THEN /\ record' = inflight.addr
              /\ upstream' = inflight.addr
              /\ pc' = "Streaming"
              /\ inflight' = NoCall
              /\ UNCHANGED <<outcome, failed>>
         ELSE /\ Propagate
              /\ UNCHANGED <<record, upstream>>
    /\ UNCHANGED <<attempt, local, calls, consumed, msgs, fails, waits>>
    /\ UNCHANGED kernelVars
    /\ UNCHANGED <<kevents, funVars>>
    /\ UNCHANGED streamVars

\* RecvDel with a Del arm that invalidates the cache
RecvDel_Invalidate ==
    /\ Running /\ pc = "Streaming"
    /\ msgs # <<>> /\ Head(msgs).ctype = "Del"
    /\ msgs' = Tail(msgs)
    /\ consumed' = Append(consumed, Handled(Head(msgs), upstream, FALSE))
    /\ upstream' = None
    /\ UNCHANGED <<pc, attempt, local, inflight, calls, outcome, record,
                   failed, fails, waits>>
    /\ UNCHANGED kernelVars
    /\ UNCHANGED <<kevents, funVars>>
    /\ UNCHANGED streamVars

\* main.rs 119-122: msgs.next() yields a Del; logged only
RecvDel ==
    /\ Running /\ pc = "Streaming"
    /\ msgs # <<>> /\ Head(msgs).ctype = "Del"
    /\ msgs' = Tail(msgs)
    /\ consumed' = Append(consumed, Handled(Head(msgs), upstream, FALSE))
    /\ UNCHANGED <<pc, attempt, local, upstream, inflight, calls, outcome,
                   record, failed, fails, waits>>
    /\ UNCHANGED kernelVars
    /\ UNCHANGED <<kevents, funVars>>
    /\ UNCHANGED streamVars

\* main.rs 103, 126: msgs.next() yields None (channel empty, tx dropped);
\* the loop ends and the block returns Ok(())
RecvNone ==
    /\ Running /\ pc = "Streaming"
    /\ msgs = <<>> /\ ~taskAlive
    /\ Exit("ok")
    /\ UNCHANGED <<attempt, local, upstream, calls, consumed, record, msgs,
                   failed, fails, waits>>
    /\ UNCHANGED kernelVars
    /\ UNCHANGED <<kevents, funVars>>
    /\ UNCHANGED streamVars

(* ----------------- the decoding task (netlink.rs 184-203) -------------- *)

\* DecodeMsg over a channel without room while a provider call is pending:
\* the event is lost
DecodeMsg_LostWhilePending ==
    /\ Running /\ taskAlive /\ nlmsgs # <<>>
    /\ nlmsgs' = Tail(nlmsgs)
    /\ LET message == Head(nlmsgs)
           m == filter_msg(IfName, message)
       IN  IF message.payload = "InnerMessage" /\ m # NoChange
                /\ inflight = NoCall
           THEN msgs' = Append(msgs, m)
           ELSE msgs' = msgs
    /\ UNCHANGED <<bound, nlopen, taskAlive, record>>
    /\ UNCHANGED kernelVars
    /\ UNCHANGED <<kevents, funVars>>
    /\ UNCHANGED mainVars

\* DecodeMsg with a notification that gives no event ending the task
DecodeMsg_DropEndsTask ==
    /\ Running /\ taskAlive /\ nlmsgs # <<>>
    /\ nlmsgs' = Tail(nlmsgs)
    /\ LET message == Head(nlmsgs)
           m == filter_msg(IfName, message)
       IN  IF message.payload = "InnerMessage" /\ m # NoChange
           THEN msgs' = Append(msgs, m) /\ taskAlive' = taskAlive
           ELSE msgs' = msgs /\ taskAlive' = FALSE
    /\ UNCHANGED <<bound, nlopen, record>>
    /\ UNCHANGED kernelVars
    /\ UNCHANGED <<kevents, funVars>>
    /\ UNCHANGED mainVars

\* DecodeMsg over a channel that hands out the newest event first
DecodeMsg_NewestFirst ==
    /\ Running /\ taskAlive /\ nlmsgs # <<>>
    /\ nlmsgs' = Tail(nlmsgs)
    /\ LET message == Head(nlmsgs)
           m == filter_msg(IfName, message)
       IN  IF message.payload = "InnerMessage" /\ m # NoChange
           THEN msgs' = <<m>> \o msgs
           ELSE msgs' = msgs
    /\ UNCHANGED <<bound, nlopen, taskAlive, record>>
    /\ UNCHANGED kernelVars
    /\ UNCHANGED <<kevents, funVars>>
    /\ UNCHANGED mainVars

\* one iteration of the task's loop: an InnerMessage goes through
\* filter_msg and the event, if any, is sent; anything else is logged
DecodeMsg ==
    /\ Running /\ taskAlive /\ nlmsgs # <<>>
    /\ nlmsgs' = Tail(nlmsgs)
    /\ LET message == Head(nlmsgs)
           m == filter_msg(IfName, message)
       IN  IF message.payload = "InnerMessage" /\ m # NoChange
           THEN msgs' = Append(msgs, m)
           ELSE msgs' = msgs
    /\ UNCHANGED <<bound, nlopen, taskAlive, record>>
    /\ UNCHANGED kernelVars
    /\ UNCHANGED <<kevents, funVars>>
    /\ UNCHANGED mainVars

\* nlmsgs.next() yields None: the task returns and tx is dropped
TaskEnds ==
    /\ Running /\ taskAlive /\ nlmsgs = <<>> /\ ~nlopen
    /\ taskAlive' = FALSE
    /\ UNCHANGED <<bound, nlopen, nlmsgs, record, msgs>>
    /\ UNCHANGED kernelVars
    /\ UNCHANGED <<kevents, funVars>>
    /\ UNCHANGED mainVars

(* --------------------------- specification ----------------------------- *)

Kernel ==
    \/ LinkAppears
    \/ \E a \in Addr : KernelAddAddr(a)
    \/ \E a \in Addr : KernelDelAddr(a)
    \/ \E a \in Addr : KernelRefreshAddr(a)
    \/ \E k \in {"NewAddress", "DelAddress"} : KernelOtherIf(k)
    \/ KernelNonInner
    \/ NetlinkClose

Main ==
    \/ QueryAddr
    \/ TimerFired
    \/ GetReturns
    \/ CreateReturns
    \/ InitUpdateReturns
    \/ OpenStream
    \/ RecvAdd
    \/ UpdateReturns
    \/ RecvDel
    \/ RecvNone

Task ==
    \/ DecodeMsg
    \/ TaskEnds

Next == Kernel \/ Main \/ Task

Spec == Init /\ [][Next]_vars

\* the program with its bootstrap attempts counted
BootSpec == InitCounting /\ [][Next]_vars

\* the executor runs every task that can make progress; the kernel owes
\* nothing
FairSpec == Spec /\ WF_vars(Main) /\ WF_vars(Task)

(* ----------------------- functions on their own ------------------------ *)

\* sequences over S of length 0..n
SeqsUpTo(S, n) == UNION {[1..k -> S] : k \in 0..n}

\* the attributes an address message of the IPv4 family can carry, and
\* those of an IPv6 one: the kernel fills IFA_ADDRESS and IFA_LOCAL with
\* addresses of the header's family
AttrsInet ==
    {AttrAddress4(a) : a \in Addr} \cup {AttrLocal(a) : a \in Addr}
    \cup {AttrLabel(IfName), AttrLabel(OtherIf)}
AttrsInet6 == {AttrAddress6, AttrLabel(IfName), AttrLabel(OtherIf)}

\* RouteNetlinkMessage values given to filter_msg: address notifications of
\* either family, and a message of another kind (NewLink)
FilterMsgInputs ==
    {InnerMsg(k, "Inet", as) :
        k \in {"NewAddress", "DelAddress", "NewLink"},
        as \in SeqsUpTo(AttrsInet, MaxAttrs)}
    \cup
    {InnerMsg(k, "Inet6", as) :
        k \in {"NewAddress", "DelAddress"},
        as \in SeqsUpTo(AttrsInet6, MaxAttrs)}

\* the values a record of the zone may hold: addresses, or a host name
ValueTexts == {Ipv4Text[a] : a \in Addr} \cup {"www.example.org"}

\* what a request of get_host_ipv4 can meet
Requests ==
    [api : {NoKey, SomeKey("api_key")}, pat : {NoKey, SomeKey("pat_key")},
     transport : BOOLEAN, status : {200, 404, 403, 500},
     body : {BadBody, ErrorBody}
            \cup {RecordBody(v) : v \in SeqsUpTo(ValueTexts, MaxValues)}]

\* the keys a configuration may give
AuthInputs ==
    [api : {NoKey, SomeKey("api_key")}, pat : {NoKey, SomeKey("pat_key")}]

\* the attributes of the messages given to is_our_if: an address, and
\* labels: config.iface, another interface, an alias of config.iface
AttrsLabelled ==
    {AttrAddress4(1), AttrLocal(1), AttrLabel(IfName), AttrLabel(OtherIf),
     AttrLabel("eth0:1")}

IsOurIfInputs ==
    {InnerMsg("NewAddress", "Inet", as) :
        as \in SeqsUpTo(AttrsLabelled, MaxAttrs)}

FunInputs ==
    {[fn |-> "filter_msg", msg |-> m] : m \in FilterMsgInputs}
    \cup {[fn |-> "is_our_if", msg |-> m] : m \in IsOurIfInputs}
    \cup {[fn |-> "get_host_ipv4", req |-> r] : r \in Requests}
    \cup {[fn |-> "get_auth", config |-> c] : c \in AuthInputs}

\* the program at rest, and one input of one function
FunInit ==
    /\ Start /\ ~ifexists /\ record = None /\ Loaded
    /\ counting = FALSE
    /\ arg \in FunInputs
    /\ ret = NoRet

\* everything but the result of the function
progVars == <<ifexists, ifaddrs, envSteps, record, pc, attempt, local,
              upstream, inflight, calls, consumed, outcome, bound, nlopen,
              nlmsgs, taskAlive, msgs, failed, fails, waits, kevents,
              counting, arg, confVars>>

\* netlink.rs 188: filter_msg(&ifname, m)
ApplyFilterMsg ==
    /\ arg.fn = "filter_msg" /\ ret = NoRet
    /\ ret' = [fn |-> "filter_msg", val |-> filter_msg(IfName, arg.msg)]
    /\ UNCHANGED progVars

\* gandi/mod.rs 134: get_host_ipv4(domain, host)
ApplyGetHostIpv4 ==
    /\ arg.fn = "get_host_ipv4" /\ ret = NoRet
    /\ ret' = [fn |-> "get_host_ipv4", val |-> get_host_ipv4(arg.req)]
    /\ UNCHANGED progVars

\* main.rs 71: get_auth(&config)
ApplyGetAuth ==
    /\ arg.fn = "get_auth" /\ ret = NoRet
    /\ ret' = [fn |-> "get_auth",
               val |-> get_auth(arg.config.api, arg.config.pat)]
    /\ UNCHANGED progVars

\* netlink.rs 243, 253: is_our_if(ifname, amsg)
ApplyIsOurIf ==
    /\ arg.fn = "is_our_if" /\ ret = NoRet
    /\ ret' = [fn |-> "is_our_if", val |-> is_our_if(IfName, arg.msg)]
    /\ UNCHANGED progVars

FunNext ==
    ApplyFilterMsg \/ ApplyGetHostIpv4 \/ ApplyGetAuth \/ ApplyIsOurIf

FunSpec == FunInit /\ [][FunNext]_vars

(* ---------------------- the decoding task on its own ------------------- *)

\* what the socket can hand to the task: the kernel's notifications for
\* config.iface and for another interface, a payload that is no inner
\* message, a message of another kind, and address messages without a
\* label, without an address, with two addresses
Notices ==
    {KernelAddrMsg(k, IfName, a) :
        k \in {"NewAddress", "DelAddress"}, a \in Addr}
    \cup {KernelAddrMsg(k, OtherIf, 1) : k \in {"NewAddress", "DelAddress"}}
    \cup {NonInnerMsg,
          InnerMsg("NewLink", "Inet", <<AttrLabel(IfName)>>),
          InnerMsg("NewAddress", "Inet", <<AttrAddress4(1), AttrLocal(1)>>),
          InnerMsg("NewAddress", "Inet", <<AttrLabel(IfName)>>),
          InnerMsg("NewAddress", "Inet",
                   <<AttrAddress4(1), AttrAddress4(2), AttrLabel(IfName)>>)}

\* the Reconciler in its streaming loop after an InitialSync that found the
\* record up to date, the task running, and some notifications waiting
DecodeInit ==
    /\ ifexists = TRUE /\ ifaddrs = {1} /\ envSteps = 0
    /\ record = 1 /\ local = 1 /\ upstream = 1
    /\ attempt = Ok(1)
    /\ pc = "Streaming" /\ outcome = "running"
    /\ inflight = NoCall /\ calls = <<Call("get", None)>>
    /\ consumed = <<>> /\ msgs = <<>>
    /\ bound = TRUE /\ nlopen = TRUE /\ taskAlive = TRUE
    /\ nlmsgs \in SeqsUpTo(Notices, MaxNotices)
    /\ failed = NoCall /\ fails = 0 /\ waits = 0
    /\ kevents = SelectSeq(
                    [i \in DOMAIN nlmsgs |->
                        LET n == nlmsgs[i]
                        IN  IF n.payload = "InnerMessage"
                                 /\ n.attributes # <<>>
                                 /\ n = KernelAddrMsg(n.kind, IfName,
                                                      n.attributes[1].ip)
                            THEN IpAddrChange(
                                   IF n.kind = "NewAddress" THEN "Add"
                                   ELSE "Del", IfName, n.attributes[1].ip)
                            ELSE NoChange],
                    LAMBDA e : e # NoChange)
    /\ counting = FALSE
    /\ arg = [fn |-> "decode", notices |-> nlmsgs]
    /\ ret = NoRet
    /\ Loaded

DecodeNext == DecodeMsg \/ TaskEnds \/ NetlinkClose

DecodeSpec == DecodeInit /\ [][DecodeNext]_vars

\* the streaming loop of the Reconciler
StreamLoop == RecvAdd \/ UpdateReturns \/ RecvDel \/ RecvNone

\* the task and the streaming loop side by side; each gets its turn (the
\* executor polls both, and an awaited provider call returns)
StreamNext == DecodeNext \/ StreamLoop

StreamSpec ==
    /\ DecodeInit /\ [][StreamNext]_vars
    /\ WF_vars(StreamLoop) /\ WF_vars(Task)

(* ---------------------- the configuration on its own ------------------- *)

\* everything but the configuration
reconVars == <<kernelVars, record, mainVars, streamVars, msgs, kevents,
               counting, arg, ret>>

\* a process that has not called get_config yet, on a host with any
\* configuration files
ConfigInit ==
    /\ Start /\ ~ifexists /\ record = None
    /\ counting = FALSE
    /\ arg = NoArg
    /\ ret = NoRet
    /\ CONFIG = Unset
    /\ files \in [FileNames -> Paths]
    /\ loads = <<>>

\* get_or_try_init storing every successful result of the closure
get_or_try_init_Overwrite(cell, init) ==
    IF init.ok THEN [cell |-> SetTo(init.conf), res |-> init]
    ELSE IF cell.set THEN [cell |-> cell, res |-> ConfOk(cell.conf)]
    ELSE [cell |-> cell, res |-> init]

\* once_cell's OnceCell::get_or_try_init (config.rs 72): the value the cell
\* holds, or else the closure's result, stored when it is Ok
get_or_try_init(cell, init) ==
    IF cell.set THEN [cell |-> cell, res |-> ConfOk(cell.conf)]
    ELSE IF init.ok THEN [cell |-> SetTo(init.conf), res |-> init]
    ELSE [cell |-> cell, res |-> init]

\* config.rs 71-82
get_config(cli_file) ==
    /\ Len(loads) < MaxLoads
    /\ LET r == get_or_try_init(CONFIG, LoadConfig(cli_file, files))
       IN  /\ CONFIG' = r.cell
           /\ loads' = Append(loads, [file |-> cli_file, res |-> r.res])
    /\ UNCHANGED <<files, reconVars>>

\* the host: a configuration file is written, replaced or removed
WriteFile(f, p) ==
    /\ files[f] # p
    /\ files' = [files EXCEPT ![f] = p]
    /\ UNCHANGED <<CONFIG, loads, reconVars>>

ConfigNext ==
    \/ \E cli_file \in CliFiles : get_config(cli_file)
    \/ \E f \in FileNames, p \in Paths : WriteFile(f, p)

ConfigSpec == ConfigInit /\ [][ConfigNext]_vars

TypeOK ==
    /\ CONFIG \in {Unset} \cup {SetTo(Config(i)) : i \in {IfName, OtherIf}}
    /\ files \in [FileNames -> Paths]
    /\ Len(loads) <= MaxLoads
    /\ ifexists \in BOOLEAN
    /\ ifaddrs \subseteq Addr
    /\ envSteps \in 0..MaxEnv
    /\ record \in OptAddr
    /\ pc \in {"Bootstrap", "Sleep", "AwaitGet", "AwaitCreate",
               "AwaitInitUpdate", "OpenStream", "Streaming", "AwaitUpdate",
               "Exited"}
    /\ local \in OptAddr
    /\ upstream \in OptAddr
    /\ outcome \in {"running", "ok", "error"}
    /\ (pc = "Exited") = (outcome # "running")
    /\ bound \in BOOLEAN /\ nlopen \in BOOLEAN /\ taskAlive \in BOOLEAN

(* ------------------------------ properties ----------------------------- *)

\* nothing is left for the Reconciler to react to: it waits in the
\* streaming loop, the task waits on the socket, both queues are empty
Quiescent ==
    /\ pc = "Streaming" /\ taskAlive /\ nlopen
    /\ nlmsgs = <<>> /\ msgs = <<>>

\* the states of InitialSync after get_a_record has returned
AfterGet == pc \in {"AwaitCreate", "AwaitInitUpdate", "OpenStream"}

\* C1: no address change that happens after the bootstrap query returned
\* is missed. With every provider call succeeding and every event consumed
\* the program comes to rest in Quiescent, and stays there if the kernel
\* changes nothing more, so "the record eventually equals the interface's
\* address" is: whenever the program is at rest and the interface has the
\* single address a, the published record is a.
C1_NoMissedUpdate ==
    \A a \in Addr : (Quiescent /\ ifaddrs = {a}) => record = a

\* C2: a mutation (create or update with address a) is issued only when
\* the published record is not already a; the record is written by this
\* process only.
C2_MutationOnlyOnDivergence ==
    inflight.op \in {"create", "update"} => record # inflight.addr

\* C3: when InitialSync is over and the Reconciler is about to enter
\* Streaming, the cache `upstream` equals the bootstrap address `local`.
C3_CacheIsLocalOnEnteringStreaming ==
    pc = "OpenStream" => upstream = local

\* C4 as stated: two consecutive Added events carrying the same address
\* trigger exactly one update_address call in total, in any Streaming state.
C4_ExactlyOneUpdate ==
    \A i \in 1..(Len(consumed) - 1) :
        ( /\ consumed[i].ctype = "Add" /\ consumed[i + 1].ctype = "Add"
          /\ consumed[i].addr = consumed[i + 1].addr )
        => (consumed[i].call # consumed[i + 1].call)

\* C4 amended: of two consecutive Added events carrying the same address a
\* the second never triggers update_address, and the first triggers it
\* exactly when the cache was not a: one call in total if the cache
\* differed from a, none if it already was a.
C4_AtMostOneUpdate ==
    \A i \in 1..(Len(consumed) - 1) :
        ( /\ consumed[i].ctype = "Add" /\ consumed[i + 1].ctype = "Add"
          /\ consumed[i].addr = consumed[i + 1].addr )
        => /\ ~consumed[i + 1].call
           /\ consumed[i].call = (consumed[i].up # consumed[i].addr)

\* two consecutive Added events with the same address were consumed and
\* the first one caused the single update
C4_Witness ==
    \E i \in 1..(Len(consumed) - 1) :
        /\ consumed[i].ctype = "Add" /\ consumed[i + 1].ctype = "Add"
        /\ consumed[i].addr = consumed[i + 1].addr
        /\ consumed[i].call /\ ~consumed[i + 1].call

\* C5: InitialSync that found no record (get_a_record returned None) has
\* issued, after the read, exactly one create_a_record(host, local) and no
\* update_a_record.
C5_CreateWhenAbsent ==
    (AfterGet /\ upstream = None)
        => calls = <<Call("get", None), Call("create", local)>>

\* InitialSync found no record and the create succeeded
C5_Witness ==
    pc = "OpenStream" /\ upstream = None /\ local # None /\ record = local

\* C6: InitialSync that found a record differing from local has issued,
\* after the read, exactly one update_a_record(host, local) and no
\* create_a_record.
C6_UpdateWhenDiffering ==
    (AfterGet /\ upstream # None /\ upstream # local)
        => calls = <<Call("get", None), Call("update", local)>>

\* InitialSync found a differing record and the update succeeded
C6_Witness ==
    /\ pc = "OpenStream" /\ upstream # None /\ upstream # local
    /\ record = local

\* C7: InitialSync that found a record equal to local issues neither
\* create_a_record nor update_a_record: the read is the only call and the
\* Reconciler goes straight on to open the stream.
C7_NoCallWhenMatching ==
    (AfterGet /\ upstream = local)
        => (pc = "OpenStream" /\ calls = <<Call("get", None)>>)

\* InitialSync found the record equal to local
C7_Witness ==
    pc = "OpenStream" /\ upstream = local /\ record = local

\* C8: taking a Removed event from the channel issues no provider call,
\* leaves the published record alone and leaves the cache as it was.
C8_RemovedIsInert ==
    [][ ( /\ pc = "Streaming" /\ msgs # <<>>
          /\ Head(msgs).ctype = "Del" /\ msgs' = Tail(msgs) )
        => ( /\ upstream' = upstream /\ calls' = calls
             /\ inflight' = inflight /\ record' = record
             /\ pc' = "Streaming" ) ]_vars

\* a Removed event for the very address the cache holds was consumed, and
\* the cache still holds it
C8_Witness ==
    /\ consumed # <<>>
    /\ consumed[Len(consumed)].ctype = "Del"
    /\ consumed[Len(consumed)].up = consumed[Len(consumed)].addr
    /\ upstream = consumed[Len(consumed)].addr

\* C9: when the change stream ends under the streaming Reconciler (channel
\* drained, sender gone), the process ends with an error outcome.
C9_StreamEndIsFatal ==
    [][ (pc = "Streaming" /\ msgs = <<>> /\ ~taskAlive /\ pc' = "Exited")
        => outcome' = "error" ]_vars

C11_ProviderFailureIsFatal ==
    [][ /\ (failed' # NoCall => pc' = "Exited" /\ outcome' = "error")
        /\ (failed # NoCall
               => /\ calls' = calls /\ consumed' = consumed
                  /\ inflight' = NoCall /\ failed' = failed
                  /\ record' = record) ]_vars

\* an update failed in Streaming while further events were waiting in the
\* channel; they stay there
C11_Witness ==
    /\ failed.op = "update" /\ consumed # <<>> /\ msgs # <<>>
    /\ pc = "Exited" /\ outcome = "error"

\* the states of Bootstrapping
InBootstrap == pc \in {"Bootstrap", "Sleep"}

\* C12: when N attempts of the bootstrap query have failed or found no
\* address and the next one returns an address, the Reconciler has waited
\* the retry delay exactly N times (one wait after each failed attempt,
\* none before the first attempt or after the successful one), and it
\* enters InitialSync exactly once, with that address as local: the entry
\* is taken on that attempt, it is the only way in, and Bootstrapping is
\* never entered again.
C12_RetryThenOneSync ==
    [][ /\ (pc' = "Bootstrap" => waits' = fails')
        /\ (pc' = "Sleep" => waits' + 1 = fails')
        /\ ( (pc = "Bootstrap" /\ pc' # pc /\ attempt'.ok
                 /\ attempt'.val # None)
               => /\ pc' = "AwaitGet" /\ local' = attempt'.val
                  /\ ifaddrs = {local'}
                  /\ waits' = fails' /\ fails' = fails
                  /\ calls' = <<Call("get", None)>> )
        /\ (pc' = "AwaitGet" /\ pc # pc' => pc = "Bootstrap")
        /\ (~InBootstrap
               => /\ ~InBootstrap' /\ local' = local
                  /\ waits' = waits /\ fails' = fails) ]_vars

\* MaxRetry attempts failed, the next one returned an address: as many
\* waits, and InitialSync has begun with that address
C12_Witness ==
    /\ pc = "AwaitGet" /\ fails = MaxRetry /\ waits = MaxRetry
    /\ attempt = Ok(local) /\ local # None
    /\ calls = <<Call("get", None)>>

\* the indices of the IPv4 Address attributes of a message
V4AddressAt(m) ==
    {i \in DOMAIN m.attributes :
        m.attributes[i].t = "Address" /\ m.attributes[i].fam = "V4"}

\* the message is labelled l: it has a Label attribute, and the first is l
LabelledAs(m, l) ==
    \E i \in DOMAIN m.attributes :
        /\ m.attributes[i] = AttrLabel(l)
        /\ \A j \in 1..(i - 1) : m.attributes[j].t # "Label"

\* filter_msg has been applied to its input
Filtered == arg.fn = "filter_msg" /\ ret.fn = "filter_msg"

\* C13: from an address-added or address-removed notification labelled
\* with the configured interface name and carrying exactly one IPv4 Address
\* attribute, filter_msg produces one event: Add for address-added, Del for
\* address-removed, with the address of that attribute and the configured
\* interface name.
C13_DecodesMatching ==
    ( /\ Filtered
      /\ arg.msg.kind \in {"NewAddress", "DelAddress"}
      /\ LabelledAs(arg.msg, IfName)
      /\ Cardinality(V4AddressAt(arg.msg)) = 1 )
    => \E i \in V4AddressAt(arg.msg) :
          ret.val = [ctype |-> IF arg.msg.kind = "NewAddress"
                               THEN "Add" ELSE "Del",
                     iface |-> IfName,
                     addr  |-> arg.msg.attributes[i].ip]

\* an address-removed notification for the configured interface, its one
\* IPv4 Address attribute coming after the Local and Label attributes, was
\* decoded to a Del event
C13_Witness ==
    /\ Filtered
    /\ arg.msg.kind = "DelAddress"
    /\ Len(arg.msg.attributes) = 3
    /\ arg.msg.attributes[1].t = "Local"
    /\ LabelledAs(arg.msg, IfName)
    /\ V4AddressAt(arg.msg) = {3}
    /\ ret.val.ctype = "Del" /\ ret.val.addr = arg.msg.attributes[3].ip
    /\ ret.val.addr # arg.msg.attributes[1].ip

ConsumedEvents ==
    [i \in 1..Len(consumed) |->
        IpAddrChange(consumed[i].ctype, IfName, consumed[i].addr)]

\* C15: the events the Reconciler has consumed, followed by those waiting
\* in the channel, are the first events the kernel emitted about the
\* configured interface, in the kernel's order and one for one; what is
\* missing of the kernel's sequence is exactly what the decoding task has
\* not decoded yet. This holds in every state of every interleaving of the
\* kernel, the decoding task and the Reconciler.
C15_OrderPreserved ==
    LET got == ConsumedEvents \o msgs
        undecoded == {i \in DOMAIN nlmsgs : LabelledAs(nlmsgs[i], IfName)}
    IN  /\ Len(got) + Cardinality(undecoded) = Len(kevents)
        /\ got = SubSeq(kevents, 1, Len(got))

\* two different events were consumed and a third one waits in the channel
C15_Witness ==
    /\ Len(consumed) = 2 /\ msgs # <<>>
    /\ ConsumedEvents[1] # ConsumedEvents[2]
    /\ ConsumedEvents \o msgs = kevents

\* C16: what a query of get_if_addr returns, unless the netlink request
\* itself failed, is decided by the interface's IPv4 addresses at the time
\* of the query: an error when the interface does not exist, Ok(None) when
\* it has no IPv4 address, Ok(Some(a)) when a is its only one, an error
\* when it has several; nothing else comes out.
C16_QueryClassifies ==
    [][ (pc = "Bootstrap" /\ pc' # pc /\ attempt'.err # "netlink")
        => /\ (~ifexists => attempt' = Err("notfound"))
           /\ (ifexists /\ ifaddrs = {} => attempt' = Ok(None))
           /\ (\A a \in Addr : ifexists /\ ifaddrs = {a} => attempt' = Ok(a))
           /\ (ifexists /\ Cardinality(ifaddrs) > 1
                 => attempt' = Err("multiple")) ]_vars

\* the interface exists and has no IPv4 address (its IPv6 address is not
\* counted): the query returned Ok(None)
C16_Witness ==
    /\ pc = "Sleep" /\ attempt = Ok(None)
    /\ ifexists /\ ifaddrs = {}

\* get_host_ipv4 has been applied to its input
Looked == arg.fn = "get_host_ipv4" /\ ret.fn = "get_host_ipv4"

\* the server answered the request
Answered(r) == (r.api.some \/ r.pat.some) /\ r.transport

\* the answer says that the record is absent: 404, or a Record without
\* values
Absent(r) ==
    /\ Answered(r)
    /\ \/ r.status = 404
       \/ r.status = 200 /\ r.body = RecordBody(<<>>)

\* C17: when the provider answers that the record is absent (status 404,
\* or a record with an empty value list), get_host_ipv4 returns Ok(None),
\* not an error. An error comes out only of some other failure: no key,
\* no exchange with the server, another status than 200 and 404, a body
\* that is not a record, more than one value, a value that is not an IPv4
\* address.
C17_AbsentIsNone ==
    Looked
    => /\ (Absent(arg.req) => ret.val = Ok(None))
       /\ (~ret.val.ok
             => \/ ~Answered(arg.req)
                \/ arg.req.status \notin {200, 404}
                \/ /\ arg.req.status = 200
                   /\ \/ arg.req.body.json # "Record"
                      \/ Len(arg.req.body.rrset_values) > 1
                      \/ /\ Len(arg.req.body.rrset_values) = 1
                         /\ \A a \in DOMAIN Ipv4Text :
                               arg.req.body.rrset_values[1] # Ipv4Text[a])

\* the provider answered 200 with a record that has no value, and the
\* result is Ok(None)
C17_Witness ==
    /\ Looked /\ Answered(arg.req)
    /\ arg.req.status = 200 /\ arg.req.body = RecordBody(<<>>)
    /\ ret.val = Ok(None)

\* C18: a configuration that gives both an API key and a PAT key is
\* rejected with an error, never accepted by choosing one of the two.
C18_TwoKeysRejected ==
    ( /\ arg.fn = "get_auth" /\ ret.fn = "get_auth"
      /\ arg.config.api.some /\ arg.config.pat.some )
    => ~ret.val.ok

\* the step takes an Added event from the channel
TakesAdd ==
    /\ pc = "Streaming" /\ consumed' # consumed
    /\ Head(msgs).ctype = "Add"

\* C19: in Streaming, taking an Added event whose address differs from the
\* cache (an empty cache differs from every address) issues exactly one
\* update_a_record(host, address): the call is made in that step, nothing
\* else is called or consumed while it is awaited, and the step in which
\* it succeeds sets the cache, and the record, to that address.
C19_DifferingAddIsUpdated ==
    [][ /\ (TakesAdd /\ Head(msgs).addr # upstream)
           => /\ calls' = Append(calls, Call("update", Head(msgs).addr))
              /\ inflight' = Call("update", Head(msgs).addr)
              /\ pc' = "AwaitUpdate" /\ upstream' = upstream
        /\ (pc = "AwaitUpdate")
           => /\ calls' = calls /\ consumed' = consumed
              /\ (pc' = "Streaming"
                    => upstream' = inflight.addr /\ record' = inflight.addr)
              /\ (pc' # "Streaming" => upstream' = upstream) ]_vars

\* an Added event met an empty cache in Streaming, the update it caused
\* has succeeded and the cache holds its address
C19_Witness ==
    /\ pc = "Streaming" /\ consumed # <<>>
    /\ consumed[Len(consumed)].ctype = "Add"
    /\ consumed[Len(consumed)].up = None
    /\ consumed[Len(consumed)].call
    /\ calls[Len(calls)] = Call("update", consumed[Len(consumed)].addr)
    /\ upstream = consumed[Len(consumed)].addr

\* C20: in Streaming, taking an Added event whose address equals the cache
\* does nothing: no provider call is issued (no update, no create, no read
\* of the record), the cache and the record stay as they were and the loop
\* goes on to the next event.
C20_MatchingAddIsSkipped ==
    [][ (TakesAdd /\ Head(msgs).addr = upstream)
        => /\ calls' = calls /\ inflight' = NoCall
           /\ upstream' = upstream /\ record' = record
           /\ pc' = "Streaming" /\ outcome' = outcome ]_vars

\* an Added event carrying the cached address was taken and skipped
C20_Witness ==
    /\ pc = "Streaming" /\ consumed # <<>>
    /\ consumed[Len(consumed)].ctype = "Add"
    /\ consumed[Len(consumed)].up = consumed[Len(consumed)].addr
    /\ ~consumed[Len(consumed)].call
    /\ upstream = consumed[Len(consumed)].addr
    /\ inflight = NoCall

\* the i-th and the next consumed event are Removed{a}, Added{a}, the
\* first one met with the cache equal to a
RemoveThenReAdd(i) ==
    /\ consumed[i].ctype = "Del" /\ consumed[i + 1].ctype = "Add"
    /\ consumed[i].addr = consumed[i + 1].addr
    /\ consumed[i].up = consumed[i].addr

\* C21: in Streaming with the cache equal to a, consuming Removed{a} and
\* then Added{a} makes no provider call (neither event issues one) and
\* leaves the cache equal to a: it is a when the Added event is taken and
\* when whatever follows it is taken, or now if nothing followed.
C21_RemoveReAddIsNoOp ==
    \A i \in 1..(Len(consumed) - 1) :
        RemoveThenReAdd(i)
        => /\ ~consumed[i].call /\ ~consumed[i + 1].call
           /\ consumed[i + 1].up = consumed[i].addr
           /\ IF i + 1 < Len(consumed)
              THEN consumed[i + 2].up = consumed[i].addr
              ELSE upstream = consumed[i].addr /\ inflight = NoCall

\* the published address was removed and added again, both events are
\* consumed and the only provider call ever made is the initial read
C21_Witness ==
    /\ pc = "Streaming" /\ Len(consumed) = 2
    /\ RemoveThenReAdd(1)
    /\ upstream = consumed[1].addr /\ record = upstream
    /\ calls = <<Call("get", None)>>

\* the step is a bootstrap query that finds no address or no interface
QueryFindsNothing ==
    /\ pc = "Bootstrap" /\ pc' # pc
    /\ attempt' \in {Ok(None), Err("notfound")}

\* C22: Bootstrapping does not end by itself. A query that finds no
\* address, or no interface, leads to the retry delay, with the process
\* running and no provider call made; the delay leads back to the query;
\* and however many attempts have gone by the next step of the loop (the
\* query, or the end of the delay) is still there to be taken: nothing
\* counts the attempts.
C22_BootstrapNeverFatal ==
    /\ [](InBootstrap
            => /\ outcome = "running" /\ calls = <<>> /\ inflight = NoCall
               /\ (pc = "Bootstrap" => ENABLED QueryAddr)
               /\ (pc = "Sleep" => ENABLED TimerFired))
    /\ [][ /\ QueryFindsNothing => pc' = "Sleep"
           /\ (pc = "Sleep" /\ pc' # pc) => pc' = "Bootstrap" ]_vars

\* a query found no interface, the delay has passed and the Reconciler is
\* about to query again
C22_Witness ==
    /\ pc = "Bootstrap" /\ attempt = Err("notfound") /\ ~ifexists
    /\ outcome = "running" /\ calls = <<>>

\* a notification the decoder has an event for: an address-added or
\* address-removed message labelled with the configured interface that
\* carries one IPv4 Address attribute
ValidNotice(n) ==
    /\ n.payload = "InnerMessage"
    /\ n.kind \in {"NewAddress", "DelAddress"}
    /\ LabelledAs(n, IfName)
    /\ Cardinality(V4AddressAt(n)) = 1

\* its event
EventOf(n) ==
    IpAddrChange(IF n.kind = "NewAddress" THEN "Add" ELSE "Del", IfName,
                 n.attributes[CHOOSE i \in V4AddressAt(n) : TRUE].ip)

\* the step in which the task takes a notification from the socket
TaskTakes == taskAlive /\ nlmsgs # <<>> /\ nlmsgs' = Tail(nlmsgs)

\* C23: a notification that gives no event (no inner payload, not an
\* address-added or address-removed message, no or another label, no or
\* several IPv4 addresses) is dropped and nothing else happens: the task
\* is still running, the channel and the Reconciler are as before; and a
\* valid notification, whatever was dropped before it, puts its event
\* into the channel.
C23_DropsAreNotFatal ==
    [][ TaskTakes
        => /\ taskAlive' /\ outcome' = "running" /\ pc' = pc
           /\ nlopen' = nlopen
           /\ msgs' = IF ValidNotice(Head(nlmsgs))
                      THEN Append(msgs, EventOf(Head(nlmsgs)))
                      ELSE msgs ]_vars

\* a notification without event came first and was dropped, the valid one
\* behind it has given its event, and the task is running
C23_Witness ==
    /\ arg.fn = "decode" /\ Len(arg.notices) = 2
    /\ ~ValidNotice(arg.notices[1]) /\ ValidNotice(arg.notices[2])
    /\ nlmsgs = <<>> /\ taskAlive
    /\ msgs = <<EventOf(arg.notices[2])>>

\* C24: the cache `upstream` changes only in a step in which the initial
\* read returns successfully (it takes what was read) or a mutation call
\* returns successfully (it takes the address written). Taking a Removed
\* event, taking an Added event that is skipped, a provider call that
\* fails and every step of Bootstrapping leave it as it was.
C24_CacheChangesOnlyOnSuccess ==
    [][ /\ (upstream' # upstream)
           => \/ /\ pc = "AwaitGet" /\ pc' # "Exited"
                 /\ failed' = NoCall /\ upstream' = record
              \/ /\ pc \in {"AwaitCreate", "AwaitInitUpdate", "AwaitUpdate"}
                 /\ pc' # "Exited" /\ failed' = NoCall
                 /\ upstream' = inflight.addr /\ record' = upstream'
        /\ (failed' # failed => upstream' = upstream)
        /\ (InBootstrap => upstream' = upstream)
        /\ (consumed' # consumed /\ pc' = "Streaming"
               => upstream' = upstream) ]_vars

\* the cache held one address, an update for another one has succeeded
\* and the cache holds that one
C24_Witness ==
    /\ pc = "Streaming" /\ consumed # <<>>
    /\ consumed[Len(consumed)].call
    /\ consumed[Len(consumed)].up # None
    /\ upstream = consumed[Len(consumed)].addr
    /\ upstream # consumed[Len(consumed)].up
    /\ record = upstream

\* the phase of the Reconciler: 1 Bootstrapping, 2 InitialSync, 3 Streaming,
\* 4 terminated
Phase(p) ==
    IF p \in {"Bootstrap", "Sleep"} THEN 1
    ELSE IF p \in {"AwaitGet", "AwaitCreate", "AwaitInitUpdate", "OpenStream"}
    THEN 2
    ELSE IF p \in {"Streaming", "AwaitUpdate"} THEN 3
    ELSE 4

\* C25: the phases follow one another in the order Bootstrapping,
\* InitialSync, Streaming and never go back. Provider calls are made only
\* once a concrete local address is there; the record is read exactly once,
\* as the first call, on entering InitialSync; get_if_addr is invoked in
\* Bootstrapping only, and not again once it has returned an address;
\* events are consumed in Streaming only.
C25_PhasesInOrder ==
    /\ [](/\ (calls # <<>> => local # None /\ attempt = Ok(local))
          /\ (Phase(pc) \in {2, 3} => calls # <<>>)
          /\ (calls # <<>>
                => /\ calls[1] = Call("get", None)
                   /\ \A i \in 2..Len(calls) : calls[i].op # "get")
          /\ (consumed # <<>> => bound /\ Phase(pc) >= 3))
    /\ [][ /\ Phase(pc') >= Phase(pc)
           /\ (Phase(pc') = Phase(pc) + 1 \/ Phase(pc') = Phase(pc)
                  \/ pc' = "Exited")
           /\ (attempt' # attempt => pc = "Bootstrap")
           /\ (consumed' # consumed => Phase(pc) = 3) ]_vars

\* all three phases have been gone through: the address was found, the
\* record read and updated, and an event consumed
C25_Witness ==
    /\ Phase(pc) = 3 /\ consumed # <<>>
    /\ local # None
    /\ Len(calls) >= 2 /\ calls[2] = Call("update", local)

\* C26: whenever the Reconciler skips an Added{a} event as a duplicate,
\* the provider's record (written by this process only) is a.
C26_SkipSafety ==
    [][ (TakesAdd /\ calls' = calls) => record = Head(msgs).addr ]_vars

\* the indices of the Added events among the consumed ones
AddedAt == {i \in DOMAIN consumed : consumed[i].ctype = "Add"}

\* the address the record should hold: that of the most recent Added event
\* consumed, or the bootstrap address if there is none
Expected ==
    IF AddedAt = {} THEN local
    ELSE consumed[CHOOSE i \in AddedAt : \A j \in AddedAt : j <= i].addr

\* C27: with the record written by this process only and every provider
\* call succeeding, whenever the Reconciler is in Streaming with the event
\* channel empty the record is the address of the most recent Added event
\* consumed, or the bootstrap address if no Added event was consumed.
C27_Convergence ==
    (pc = "Streaming" /\ msgs = <<>> /\ failed = NoCall)
        => record = Expected

\* a provider call is awaited
Pending ==
    pc \in {"AwaitGet", "AwaitCreate", "AwaitInitUpdate", "AwaitUpdate"}

\* C28: the Reconciler handles one event at a time. A provider call is in
\* flight exactly while the Reconciler awaits one, and while it does no
\* event is taken and no second call is issued beside it. The decoding
\* task is never held up: whenever a notification waits it can decode it,
\* whatever the Reconciler is doing and however full the channel is, and
\* the event of a valid notification goes to the end of the channel. Each
\* step of consumption takes exactly the head of the channel, and under
\* weak fairness every event put into the channel (the n-th, for every n)
\* is consumed unless the Reconciler terminates first.
C28_OneAtATime ==
    /\ [](/\ (inflight # NoCall <=> Pending)
          /\ (Running /\ taskAlive /\ nlmsgs # <<>> => ENABLED DecodeMsg))
    /\ [][ /\ (Pending => consumed' = consumed)
           /\ (calls' # calls
                 => /\ pc \in {"Bootstrap", "AwaitGet", "Streaming"}
                    /\ calls' = Append(calls, inflight'))
           /\ (TaskTakes /\ ValidNotice(Head(nlmsgs))
                 => msgs' = Append(msgs, EventOf(Head(nlmsgs))))
           /\ (consumed' # consumed
                 => /\ msgs' = Tail(msgs)
                    /\ Len(consumed') = Len(consumed) + 1
                    /\ consumed'[Len(consumed')].ctype = Head(msgs).ctype
                    /\ consumed'[Len(consumed')].addr = Head(msgs).addr) ]_vars
    /\ \A n \in 1..MaxNotices :
          (Len(consumed) + Len(msgs) >= n)
              ~> (Len(consumed) >= n \/ pc = "Exited")

\* the update caused by the first event is pending, and the event the
\* task has decoded meanwhile waits in the channel
C28_Witness ==
    /\ pc = "AwaitUpdate" /\ Len(consumed) = 1 /\ consumed[1].call
    /\ inflight = Call("update", consumed[1].addr)
    /\ nlmsgs = <<>> /\ Len(msgs) = 1

\* get_if_addr has returned a concrete address
GotAddress == attempt.ok /\ attempt.val # None

\* the step leaves Bootstrapping
LeavesBootstrap == Phase(pc) = 1 /\ Phase(pc') # 1

\* C29 as stated: under weak fairness, once get_if_addr has returned a
\* concrete address the Reconciler reaches Streaming, unless a provider
\* call of InitialSync fails; and it leaves Bootstrapping only when
\* get_if_addr returns a concrete address.
C29_StartupReachesStreaming ==
    /\ (GotAddress /\ Phase(pc) = 2) ~> (Phase(pc) = 3 \/ failed # NoCall)
    /\ [][LeavesBootstrap => GotAddress']_vars

\* C29 amended: under weak fairness, once get_if_addr has returned a
\* concrete address the Reconciler reaches Streaming, unless a provider
\* call of InitialSync fails or the notification socket cannot be opened
\* (then the process ends with an error before Streaming); and it leaves
\* Bootstrapping only when get_if_addr returns a concrete address, which
\* becomes local.
C29_StartupLiveness ==
    /\ (GotAddress /\ Phase(pc) = 2)
          ~> \/ Phase(pc) = 3
             \/ failed # NoCall
             \/ pc = "Exited" /\ outcome = "error" /\ ~bound
    /\ [][LeavesBootstrap => GotAddress' /\ local' = attempt'.val]_vars

\* the address was found, the record created and the stream opened: the
\* Reconciler is in Streaming and has not taken an event yet
C29_Witness ==
    /\ pc = "Streaming" /\ bound /\ GotAddress
    /\ calls = <<Call("get", None), Call("create", local)>>
    /\ failed = NoCall /\ consumed = <<>>

\* is_our_if has been applied to its input
Matched == arg.fn = "is_our_if" /\ ret.fn = "is_our_if"

\* the indices of the Label attributes of a message
LabelAt(m) == {i \in DOMAIN m.attributes : m.attributes[i].t = "Label"}

\* C30: is_our_if answers by the first Label attribute alone. It is true
\* exactly when the notification has a Label attribute and the one at the
\* lowest position is the configured name, to the letter; what other
\* attributes stand before or after it, and what later Labels say, makes
\* no difference.
C30_FirstLabelDecides ==
    Matched
    => ret.val =
         ( /\ LabelAt(arg.msg) # {}
           /\ LET first == CHOOSE i \in LabelAt(arg.msg) :
                               \A j \in LabelAt(arg.msg) : i <= j
              IN  arg.msg.attributes[first].label = IfName )

\* the first Label comes after an Address attribute and names another
\* interface, a later Label names the configured one: no match
C30_Witness ==
    /\ Matched /\ Len(arg.msg.attributes) = 3
    /\ arg.msg.attributes[1].t = "Address"
    /\ arg.msg.attributes[2] = AttrLabel(OtherIf)
    /\ arg.msg.attributes[3] = AttrLabel(IfName)
    /\ ret.val = FALSE

\* the file a get_config call names
Confile(cli_file) == IF cli_file = NoFile THEN DEFAULT_CONFIG_FILE ELSE cli_file

\* a get_config call has just returned
Returned == Len(loads') = Len(loads) + 1

\* C31: the configuration is initialised at most once. After the first
\* successful get_config every later call returns that same configuration
\* whatever file it names; the cell holds a value only once a call has
\* succeeded and never changes afterwards; a call made while the cell is
\* empty loads the file it names, so that after a failed call the next one
\* initialises again.
C31_InitialisedAtMostOnce ==
    /\ [](\A i, j \in DOMAIN loads :
              i < j /\ loads[i].res.ok => loads[j].res = loads[i].res)
    /\ [](CONFIG.set <=> \E i \in DOMAIN loads : loads[i].res.ok)
    /\ [][CONFIG.set => CONFIG' = CONFIG]_vars
    /\ [][Returned /\ ~CONFIG.set
            => LET call == loads'[Len(loads')]
                   path == files[Confile(call.file)]
               IN  IF path.exists /\ path.text # BadCorn
                   THEN /\ call.res.ok
                        /\ CornOf(call.res.conf.iface) = path.text
                        /\ CONFIG' = SetTo(call.res.conf)
                   ELSE ~call.res.ok /\ ~CONFIG'.set]_vars

\* a first call failed, a second one loaded a configuration, and a third
\* one naming another file, which holds another configuration, returned
\* the second one's
C31_Witness ==
    /\ Len(loads) = 3
    /\ ~loads[1].res.ok
    /\ loads[2].res.ok
    /\ Confile(loads[3].file) # Confile(loads[2].file)
    /\ files[Confile(loads[3].file)].exists
    /\ files[Confile(loads[3].file)].text \in Texts \ {BadCorn}
    /\ files[Confile(loads[3].file)].text # CornOf(CONFIG.conf.iface)
    /\ loads[3].res = loads[2].res
=============================================================================
